---- MODULE Spec2Model ----
(***************************************************************************)
(* Model of the decision-theory programs of kpi-assignments:               *)
(*   SEM10/tpr-4/main.go  ParetoSystem: expert rankings, dominance         *)
(*                        relation, Pareto set                             *)
(*   SEM10/tpr-3/main.go  UncertainDecisionSystem: Savage and Laplace      *)
(*                        criteria, sortAltValues                          *)
(*   unnamed/part_000     UncertainDecisionSystem: Wald, MaxiMax and       *)
(*                        Hurwicz criteria, PrintRankings / ByCriterion    *)
(*                                                                         *)
(* A Go string is modelled as the sequence of its bytes, so that           *)
(* sort.Strings compares names the way Go compares strings.  A float64 is  *)
(* modelled as an exact fraction [num, den] with den > 0; utilities are    *)
(* whole numbers, so every sum, difference and comparison of the code is   *)
(* exact in the model.                                                     *)
(***************************************************************************)
EXTENDS Integers, Sequences, FiniteSets

\* ------------------------------------------------------------------------
\* Bounds of the model
\* ------------------------------------------------------------------------

\* Names the user may give to alternatives: "a", "ab", "b".
Names == {<<1>>, <<1, 2>>, <<2>>}

\* Largest number of experts entered.
MaxExperts == 2

\* Numbers of external states the user may enter.
StateCounts == {1, 2}

\* Largest maxScore entered; utilities are the whole numbers 1..maxScore.
MaxScoreCap == 3

\* The optimism coefficient is one of 0/AlphaDen, 1/AlphaDen, ..., 1.
AlphaDen == 2

VARIABLES
    \* ParetoSystem (tpr-4)
    alts,        \* p.alts
    experts,     \* p.experts
    rankings,    \* p.rankings[expert][alt]
    dominance,   \* p.dominance[a] = the set of b with p.dominance[a][b] = true
    pareto,      \* the slice returned by ParetoSet
    \* UncertainDecisionSystem (tpr-3 and part_000)
    alternatives,   \* u.alternatives
    statesCount,    \* u.statesCount
    maxScore,       \* u.maxScore
    outcomes,       \* u.outcomes[alt]
    savage,         \* main's savage (tpr-3)
    sortedSev,      \* main's sortedSev (tpr-3)
    laplace,        \* main's laplace (tpr-3)
    sortedLaplace,  \* main's sortedLaplace (tpr-3)
    alpha,          \* the coefficient read by CalculateCriteria (part_000)
    criteriaAlts,   \* main's alts, the slice CalculateCriteria returned (part_000)
    pc              \* position of the caller

paretoVars == <<alts, experts, rankings, dominance, pareto>>

uncertainVars ==
    <<alternatives, statesCount, maxScore, outcomes, savage, sortedSev, laplace,
      sortedLaplace, alpha, criteriaAlts>>

vars == <<paretoVars, uncertainVars, pc>>

\* ------------------------------------------------------------------------
\* Helpers
\* ------------------------------------------------------------------------

Range(s) == {s[i] : i \in DOMAIN s}

Injective(s) == \A i, j \in DOMAIN s : i # j => s[i] # s[j]

\* Every way of declaring one or more distinct alternatives.
AltLists ==
    {s \in UNION {[1..n -> Names] : n \in 1..Cardinality(Names)} : Injective(s)}

\* Go's string comparison a < b: bytewise, a proper prefix is smaller.
RECURSIVE StringLess(_, _)
StringLess(a, b) ==
    IF b = <<>> THEN FALSE
    ELSE IF a = <<>> THEN TRUE
    ELSE IF Head(a) # Head(b) THEN Head(a) < Head(b)
    ELSE StringLess(Tail(a), Tail(b))

\* ------------------------------------------------------------------------
\* tpr-4: ParetoSystem
\* ------------------------------------------------------------------------

\* p.rankings[e][a]: reading a missing key of a Go map yields the zero value.
Rank(e, a) ==
    IF e \in DOMAIN rankings /\ a \in DOMAIN rankings[e] THEN rankings[e][a] ELSE 0

\* Variant: `better` is overwritten by every expert instead of being kept.
RECURSIVE ExpertLoopLastWins(_, _, _, _)
ExpertLoopLastWins(a1, a2, i, better) ==
    IF i > Len(experts) THEN better
    ELSE LET r1 == Rank(experts[i], a1)
             r2 == Rank(experts[i], a2)
         IN  IF r1 > r2 THEN FALSE
             ELSE ExpertLoopLastWins(a1, a2, i + 1, r1 < r2)

\* The loop over p.experts of BuildDominance for one pair (a1, a2), started
\* at expert index i with the current value of the flag `better`.  The loop
\* leaves with notWorse = false at the first expert with r1 > r2; the result
\* is the value of `notWorse && better` after the loop.
RECURSIVE ExpertLoop(_, _, _, _)
ExpertLoop(a1, a2, i, better) ==
    IF i > Len(experts) THEN better
    ELSE LET r1 == Rank(experts[i], a1)
             r2 == Rank(experts[i], a2)
         IN  IF r1 > r2 THEN FALSE
             ELSE ExpertLoop(a1, a2, i + 1, better \/ (r1 < r2))

\* Variant: `better` starts true, so a pair tied everywhere dominates.
DominatesOnTies(a1, a2) ==
    IF a1 = a2 THEN FALSE ELSE ExpertLoop(a1, a2, 1, TRUE)

\* Variant: an expert who ranks a1 worse does not end the loop.
RECURSIVE ExpertLoopNoBreak(_, _, _, _)
ExpertLoopNoBreak(a1, a2, i, better) ==
    IF i > Len(experts) THEN better
    ELSE ExpertLoopNoBreak(a1, a2, i + 1,
             better \/ (Rank(experts[i], a1) < Rank(experts[i], a2)))

DominatesNoBreak(a1, a2) ==
    IF a1 = a2 THEN FALSE ELSE ExpertLoopNoBreak(a1, a2, 1, FALSE)

\* The body of the two nested loops over p.alts: is p.dominance[a1][a2] set?
Dominates(a1, a2) ==
    IF a1 = a2 THEN FALSE ELSE ExpertLoop(a1, a2, 1, FALSE)

\* p.dominance[b][a] read through the (possibly empty) map of maps.
Dom(b, a) == b \in DOMAIN dominance /\ a \in dominance[b]

\* insertion of x into the sorted sequence s (sort.Strings on a short slice)
RECURSIVE InsertString(_, _)
InsertString(s, x) ==
    IF s = <<>> THEN <<x>>
    ELSE IF StringLess(x, s[Len(s)])
         THEN Append(InsertString(SubSeq(s, 1, Len(s) - 1), x), s[Len(s)])
         ELSE Append(s, x)

\* Variant: the slice is returned in declaration order.
SortStringsOmitted(s) == s

RECURSIVE SortStrings(_)
SortStrings(s) ==
    IF s = <<>> THEN <<>>
    ELSE InsertString(SortStrings(SubSeq(s, 1, Len(s) - 1)), s[Len(s)])

\* The loop of ParetoSet: the alternatives, in declaration order, that no b
\* dominates.
NonDominated == SelectSeq(alts, LAMBDA a : ~ \E i \in DOMAIN alts : Dom(alts[i], a))

\* newParetoSystem: alternatives and experts are read, both maps are empty.
InitPareto ==
    /\ alts \in AltLists
    /\ experts \in {[i \in 1..n |-> i] : n \in 1..MaxExperts}
    /\ rankings = <<>>
    /\ dominance = <<>>
    /\ pareto = <<>>
    /\ pc = "constructed"
    /\ alternatives = <<>> /\ statesCount = 0 /\ maxScore = 0 /\ outcomes = <<>>
    /\ savage = <<>> /\ sortedSev = <<>> /\ laplace = <<>> /\ sortedLaplace = <<>>
    /\ alpha = [num |-> 0, den |-> 1] /\ criteriaAlts = <<>>

\* CollectRankings: every expert gives every alternative a rank in 1..count;
\* nothing makes a row a permutation.
CollectRankings ==
    /\ pc = "constructed"
    /\ \E m \in [Range(experts) -> [Range(alts) -> 1..Len(alts)]] : rankings' = m
    /\ pc' = "collected"
    /\ UNCHANGED <<alts, experts, dominance, pareto, uncertainVars>>

\* BuildDominance: every row of p.dominance is made afresh, then filled.
BuildDominance ==
    /\ pc \in {"constructed", "collected"}
    /\ dominance' = [a1 \in Range(alts) |-> {a2 \in Range(alts) : Dominates(a1, a2)}]
    /\ pc' = "built"
    /\ UNCHANGED <<alts, experts, rankings, pareto, uncertainVars>>

\* ParetoSet: collect the non-dominated alternatives, then sort.Strings.
ParetoSet ==
    /\ pc = "built"
    /\ pareto' = SortStrings(NonDominated)
    /\ pc' = "extracted"
    /\ UNCHANGED <<alts, experts, rankings, dominance, uncertainVars>>

NextPareto == CollectRankings \/ BuildDominance \/ ParetoSet

SpecPareto == InitPareto /\ [][NextPareto]_vars

\* ------------------------------------------------------------------------
\* Properties of the ParetoSystem
\* ------------------------------------------------------------------------

AltSet == Range(alts)
ExpertSet == Range(experts)

\* The rank matrix has a rank for every (expert, alternative) pair.
CompleteRanks ==
    /\ DOMAIN rankings = ExpertSet
    /\ \A e \in ExpertSet : DOMAIN rankings[e] = AltSet

DominanceBuilt == pc \in {"built", "extracted"}

\* Some expert's row is not a permutation of 1..N.
DuplicateRanks ==
    \E e \in ExpertSet : \E a, b \in AltSet : a # b /\ rankings[e][a] = rankings[e][b]

\* C1: after BuildDominance on a complete rank matrix, a1 dominates a2
\* exactly when every expert ranks a1 no worse than a2 and some expert ranks
\* it strictly better, whatever the rank values (duplicates included).
C1_DominanceRule ==
    (DominanceBuilt /\ CompleteRanks) =>
        \A a1, a2 \in AltSet :
            a1 # a2 =>
                (Dom(a1, a2) <=>
                    /\ \A e \in ExpertSet : rankings[e][a1] <= rankings[e][a2]
                    /\ \E e \in ExpertSet : rankings[e][a1] < rankings[e][a2])

\* A built relation over a matrix with duplicate ranks in which one pair is
\* dominated, and another pair is not because a later expert disagrees with
\* an earlier one who ranked it strictly better.
C1_Witness ==
    /\ pc = "built" /\ CompleteRanks /\ DuplicateRanks
    /\ Len(experts) >= 2
    /\ \E a, b \in AltSet : Dom(a, b)
    /\ \E a, b \in AltSet :
          /\ rankings[experts[1]][a] < rankings[experts[1]][b]
          /\ rankings[experts[2]][a] > rankings[experts[2]][b]
          /\ ~ Dom(a, b)
    /\ \E a, b \in AltSet :
          /\ rankings[experts[1]][a] < rankings[experts[1]][b]
          /\ rankings[experts[2]][a] = rankings[experts[2]][b]
          /\ Dom(a, b)

\* The alternatives that no alternative dominates.
Undominated == {a \in AltSet : ~ \E b \in AltSet : Dom(b, a)}

\* C2: ParetoSet returns exactly the undominated alternatives, each once, in
\* ascending lexicographic order whatever the declaration order; with no
\* dominance pair at all it returns every alternative.
C2_ParetoSetSorted ==
    pc = "extracted" =>
        /\ Range(pareto) = Undominated
        /\ Injective(pareto)
        /\ \A i, j \in DOMAIN pareto : i < j => StringLess(pareto[i], pareto[j])
        /\ (\A a, b \in AltSet : ~ Dom(a, b)) => Range(pareto) = AltSet

\* ParetoSet has returned two or more names, some alternative was dropped,
\* and the survivors were declared in descending order.
C2_Witness ==
    /\ pc = "extracted"
    /\ Len(pareto) >= 2
    /\ Undominated # AltSet
    /\ \E i, j \in DOMAIN alts :
          /\ i < j /\ StringLess(alts[j], alts[i])
          /\ alts[i] \in Undominated /\ alts[j] \in Undominated

\* C3: with at least one alternative and one expert, the sequence returned
\* by ParetoSet after BuildDominance is never empty.
C3_ParetoNonEmpty ==
    (pc = "extracted" /\ Len(alts) >= 1 /\ Len(experts) >= 1) => pareto # <<>>

\* ParetoSet has run on three alternatives of which two are dominated, with
\* ties in the matrix.
C3_Witness ==
    /\ pc = "extracted" /\ CompleteRanks /\ DuplicateRanks
    /\ Len(alts) = 3
    /\ Len(pareto) = 1

\* C4: dominance[a][b] and dominance[b][a] are never both true, and a pair
\* that every expert ranks equally is related in neither direction.
C4_Antisymmetric ==
    DominanceBuilt =>
        \A a, b \in AltSet :
            /\ ~ (Dom(a, b) /\ Dom(b, a))
            /\ (\A e \in ExpertSet : Rank(e, a) = Rank(e, b)) =>
                  (~ Dom(a, b) /\ ~ Dom(b, a))

\* A built relation with a pair tied by every expert next to a dominated pair.
C4_Witness ==
    /\ pc = "built" /\ CompleteRanks
    /\ \E a, b \in AltSet :
          a # b /\ \A e \in ExpertSet : rankings[e][a] = rankings[e][b]
    /\ \E a, b \in AltSet : Dom(a, b)

\* ------------------------------------------------------------------------
\* float64 values
\* ------------------------------------------------------------------------

\* The float64 holding the whole number n.
Float(n) == [num |-> n, den |-> 1]

\* x < y and x == y on float64 values.
FLess(x, y) == x.num * y.den < y.num * x.den
FEq(x, y) == x.num * y.den = y.num * x.den

\* ------------------------------------------------------------------------
\* tpr-3 and part_000: UncertainDecisionSystem
\* ------------------------------------------------------------------------

\* u.outcomes[alt]: a missing key yields the nil slice.
Row(alt) == IF alt \in DOMAIN outcomes THEN outcomes[alt] ELSE <<>>

\* CalculateSavage reads u.outcomes[alt][j] for every state j and every
\* alternative: an index past the end of a row is a run-time panic.
SavagePanics ==
    \E j \in 1..statesCount : \E i \in DOMAIN alternatives :
        j > Len(Row(alternatives[i]))

\* The inner loop of CalculateSavage's first pass for state j, from the
\* alternative at index i on, with the running maximum maxVal.
RECURSIVE MaxLoop(_, _, _)
MaxLoop(j, i, maxVal) ==
    IF i > Len(alternatives) THEN maxVal
    ELSE LET val == Row(alternatives[i])[j]
         IN  MaxLoop(j, i + 1, IF val > maxVal THEN val ELSE maxVal)

\* maxOutcomes[j]
MaxOutcomes(j) == MaxLoop(j, 1, 0)

\* Variant: the regret is taken with the wrong sign.
RECURSIVE RegretLoopNegated(_, _, _)
RegretLoopNegated(alt, j, maxRegret) ==
    IF j > Len(Row(alt)) THEN maxRegret
    ELSE LET regret == Row(alt)[j] - MaxOutcomes(j)
         IN  RegretLoopNegated(alt, j + 1, IF regret > maxRegret THEN regret ELSE maxRegret)

\* The inner loop of CalculateSavage's second pass for one alternative, from
\* state j on, with the running maximum maxRegret.
RECURSIVE RegretLoop(_, _, _)
RegretLoop(alt, j, maxRegret) ==
    IF j > Len(Row(alt)) THEN maxRegret
    ELSE LET regret == MaxOutcomes(j) - Row(alt)[j]
         IN  RegretLoop(alt, j + 1, IF regret > maxRegret THEN regret ELSE maxRegret)

\* The sum loop of CalculateLaplace.
RECURSIVE SumLoop(_, _, _)
SumLoop(alt, j, sum) ==
    IF j > Len(Row(alt)) THEN sum ELSE SumLoop(alt, j + 1, sum + Row(alt)[j])

\* ---- sortAltValues ----

\* arr[i], arr[j] = arr[j], arr[i]
Swap(arr, i, j) == [arr EXCEPT ![i] = arr[j], ![j] = arr[i]]

\* The comparison closures handed to sort.Slice.
SliceLess(arr, ascending, i, j) ==
    IF ascending THEN FLess(arr[i].value, arr[j].value)
    ELSE FLess(arr[j].value, arr[i].value)

\* sort.Slice on a slice of fewer than 12 elements is an insertion sort:
\*   for i := 1; i < n; i++ { for j := i; j > 0 && less(j, j-1); j-- { swap(j, j-1) } }
\* (indices here are 1-based).
RECURSIVE SliceSink(_, _, _)
SliceSink(arr, ascending, j) ==
    IF j > 1 /\ SliceLess(arr, ascending, j, j - 1)
    THEN SliceSink(Swap(arr, j, j - 1), ascending, j - 1)
    ELSE arr

RECURSIVE SortSlice(_, _, _)
SortSlice(arr, ascending, i) ==
    IF i > Len(arr) THEN arr
    ELSE SortSlice(SliceSink(arr, ascending, i), ascending, i + 1)

\* `for alt, val := range data`: a Go map is iterated in an unspecified
\* order, so arr may list the entries of data in any order.
MapRange(data) ==
    LET keys == DOMAIN data
        n == Cardinality(keys)
    IN  {[i \in 1..n |-> [alt |-> order[i], value |-> data[order[i]]]] :
            order \in {o \in [1..n -> keys] : Injective(o)}}

\* Every slice sortAltValues(data, ascending) may return.
sortAltValues(data, ascending) ==
    {SortSlice(arr, ascending, 2) : arr \in MapRange(data)}

\* ---- CalculateCriteria ----

\* The min/max loop over data, from index k on.
RECURSIVE MinLoop(_, _, _)
MinLoop(data, k, minVal) ==
    IF k > Len(data) THEN minVal
    ELSE MinLoop(data, k + 1, IF data[k] < minVal THEN data[k] ELSE minVal)

RECURSIVE MaxValLoop(_, _, _)
MaxValLoop(data, k, maxVal) ==
    IF k > Len(data) THEN maxVal
    ELSE MaxValLoop(data, k + 1, IF data[k] > maxVal THEN data[k] ELSE maxVal)

\* Variant: the two weights are exchanged.
HurwiczSwapped(a, minVal, maxVal) ==
    [num |-> a.num * minVal + (a.den - a.num) * maxVal, den |-> a.den]

\* alpha*maxVal + (1-alpha)*minVal
Hurwicz(a, minVal, maxVal) ==
    [num |-> a.num * maxVal + (a.den - a.num) * minVal, den |-> a.den]

\* The zero value of Alternative, left in alts[i] when the row is empty.
ZeroAlternative ==
    [name |-> <<>>, wald |-> Float(0), maxmax |-> Float(0), hurwicz |-> Float(0)]

\* The body of CalculateCriteria's loop: alts[i] for the alternative alt.
CriteriaOf(alt, a) ==
    LET data == Row(alt)
    IN  IF Len(data) = 0 THEN ZeroAlternative
        ELSE LET minVal == MinLoop(data, 1, data[1])
                 maxVal == MaxValLoop(data, 1, data[1])
             IN  [name |-> alt, wald |-> Float(minVal), maxmax |-> Float(maxVal),
                  hurwicz |-> Hurwicz(a, minVal, maxVal)]

\* ---- PrintRankings / ByCriterion ----

\* Variant: the comparison is turned around.
ByCriterionLessAscending(arr, criterion, i, j) ==
    FLess(arr[i][criterion], arr[j][criterion])

\* ByCriterion.Less with value = the field named by criterion.
ByCriterionLess(arr, criterion, i, j) ==
    FLess(arr[j][criterion], arr[i][criterion])

\* sort.Sort on fewer than 12 elements: insertion sort through Less and Swap.
RECURSIVE CriterionSink(_, _, _)
CriterionSink(arr, criterion, j) ==
    IF j > 1 /\ ByCriterionLess(arr, criterion, j, j - 1)
    THEN CriterionSink(Swap(arr, j, j - 1), criterion, j - 1)
    ELSE arr

RECURSIVE SortByCriterion(_, _, _)
SortByCriterion(arr, criterion, i) ==
    IF i > Len(arr) THEN arr
    ELSE SortByCriterion(CriterionSink(arr, criterion, i), criterion, i + 1)

\* ---- operations ----

\* newUncertainDecisionSystem: names, counts and maxScore are read (each
\* count must be > 0), outcomes is the empty map.
InitUncertain ==
    /\ alternatives \in AltLists
    /\ statesCount \in StateCounts
    /\ maxScore \in 1..MaxScoreCap
    /\ outcomes = <<>>
    /\ savage = <<>> /\ sortedSev = <<>> /\ laplace = <<>> /\ sortedLaplace = <<>>
    /\ alpha = [num |-> 0, den |-> 1] /\ criteriaAlts = <<>>
    /\ pc = "constructed"
    /\ alts = <<>> /\ experts = <<>> /\ rankings = <<>> /\ dominance = <<>>
    /\ pareto = <<>>

\* CollectOutcomes: a row of statesCount utilities in 1..maxScore for every
\* alternative.
CollectOutcomes ==
    /\ pc = "constructed"
    /\ \E m \in [Range(alternatives) -> [1..statesCount -> 1..maxScore]] :
          outcomes' = m
    /\ pc' = "collected"
    /\ UNCHANGED <<alternatives, statesCount, maxScore, savage, sortedSev, laplace,
                   sortedLaplace, alpha, criteriaAlts, paretoVars>>

\* CalculateSavage
CalculateSavage ==
    /\ pc \in {"constructed", "collected"}
    /\ IF SavagePanics
       THEN pc' = "panic" /\ UNCHANGED savage
       ELSE /\ savage' = [a \in Range(alternatives) |-> Float(RegretLoop(a, 1, 0))]
            /\ pc' = "savage"
    /\ UNCHANGED <<alternatives, statesCount, maxScore, outcomes, sortedSev, laplace,
                   sortedLaplace, alpha, criteriaAlts, paretoVars>>

\* sortedSev := sortAltValues(savage, true)
SortSavage ==
    /\ pc = "savage"
    /\ sortedSev' \in sortAltValues(savage, TRUE)
    /\ pc' = "sortedSev"
    /\ UNCHANGED <<alternatives, statesCount, maxScore, outcomes, savage, laplace,
                   sortedLaplace, alpha, criteriaAlts, paretoVars>>

\* CalculateLaplace
CalculateLaplace ==
    /\ pc \in {"constructed", "collected", "sortedSev"}
    /\ laplace' = [a \in Range(alternatives) |->
                      [num |-> SumLoop(a, 1, 0), den |-> statesCount]]
    /\ pc' = "laplace"
    /\ UNCHANGED <<alternatives, statesCount, maxScore, outcomes, savage, sortedSev,
                   sortedLaplace, alpha, criteriaAlts, paretoVars>>

\* sortedLaplace := sortAltValues(laplace, false)
SortLaplace ==
    /\ pc = "laplace"
    /\ sortedLaplace' \in sortAltValues(laplace, FALSE)
    /\ pc' = "sortedLaplace"
    /\ UNCHANGED <<alternatives, statesCount, maxScore, outcomes, savage, sortedSev,
                   laplace, alpha, criteriaAlts, paretoVars>>

\* CalculateCriteria: alpha in [0, 1] is read, then one Alternative per name.
CalculateCriteria ==
    /\ pc \in {"constructed", "collected"}
    /\ \E k \in 0..AlphaDen :
          LET a == [num |-> k, den |-> AlphaDen]
          IN  /\ alpha' = a
              /\ criteriaAlts' =
                    [i \in 1..Len(alternatives) |-> CriteriaOf(alternatives[i], a)]
    /\ pc' = "criteria"
    /\ UNCHANGED <<alternatives, statesCount, maxScore, outcomes, savage, sortedSev,
                   laplace, sortedLaplace, paretoVars>>

\* PrintRankings(criterion, alts, value): sort.Sort works on the caller's slice.
PrintRankings(criterion, from, to) ==
    /\ pc = from
    /\ criteriaAlts' = SortByCriterion(criteriaAlts, criterion, 2)
    /\ pc' = to
    /\ UNCHANGED <<alternatives, statesCount, maxScore, outcomes, savage, sortedSev,
                   laplace, sortedLaplace, alpha, paretoVars>>

\* The three calls of part_000's main, in its order.
PrintWald == PrintRankings("wald", "criteria", "wald")
PrintMaxMax == PrintRankings("maxmax", "wald", "maxmax")
PrintHurwicz == PrintRankings("hurwicz", "maxmax", "hurwicz")

NextUncertain ==
    \/ CollectOutcomes
    \/ CalculateSavage
    \/ SortSavage
    \/ CalculateLaplace
    \/ SortLaplace
    \/ CalculateCriteria
    \/ PrintWald
    \/ PrintMaxMax
    \/ PrintHurwicz

SpecUncertain == InitUncertain /\ [][NextUncertain]_vars

\* ------------------------------------------------------------------------
\* Properties of the UncertainDecisionSystem
\* ------------------------------------------------------------------------

AlternativeSet == Range(alternatives)

\* A utility row of statesCount values is recorded for every alternative.
CompleteOutcomes ==
    /\ DOMAIN outcomes = AlternativeSet
    /\ \A a \in AlternativeSet : Len(outcomes[a]) = statesCount

\* The greatest element of a non-empty finite set of numbers.
Greatest(S) == CHOOSE m \in S : \A x \in S : x <= m
Least(S) == CHOOSE m \in S : \A x \in S : m <= x

\* M_j: the true maximum of U(b, j) over all alternatives b.
StateMax(j) == Greatest({outcomes[b][j] : b \in AlternativeSet})

SavageDone == DOMAIN savage # {}

\* C5: with every utility in 1..maxScore and one state or more, the Savage
\* score of a is max_j (M_j - U(a, j)) with M_j the true column maximum; it
\* is never negative, and it is 0 for an alternative that attains M_j in
\* every state.
C5_SavageRegret ==
    (SavageDone /\ CompleteOutcomes /\ statesCount >= 1) =>
        \A a \in AlternativeSet :
            /\ FEq(savage[a],
                   Float(Greatest({StateMax(j) - outcomes[a][j] : j \in 1..statesCount})))
            /\ ~ FLess(savage[a], Float(0))
            /\ (\A j \in 1..statesCount : outcomes[a][j] = StateMax(j)) =>
                  FEq(savage[a], Float(0))

\* CalculateSavage has run on a matrix where one alternative is best in every
\* state and another has regrets that differ between two states.
C5_Witness ==
    /\ pc = "savage" /\ statesCount = 2
    /\ \E a \in AlternativeSet :
          /\ \A j \in 1..statesCount : outcomes[a][j] = StateMax(j)
          /\ FEq(savage[a], Float(0))
    /\ \E a \in AlternativeSet :
          /\ StateMax(1) - outcomes[a][1] = 1
          /\ StateMax(2) - outcomes[a][2] = 2
          /\ FEq(savage[a], Float(2))

CriteriaDone == pc \in {"criteria", "wald", "maxmax", "hurwicz"}

\* C6: over a complete utility matrix the Wald score is the row minimum, the
\* MaxiMax score the row maximum, Wald <= MaxiMax, and the Hurwicz score is
\* the Wald score for alpha = 0 and the MaxiMax score for alpha = 1.
C6_WaldMaxiMaxHurwicz ==
    (CriteriaDone /\ CompleteOutcomes) =>
        \A i \in DOMAIN criteriaAlts :
            LET r == criteriaAlts[i]
            IN  /\ FEq(r.wald, Float(Least(Range(outcomes[r.name]))))
                /\ FEq(r.maxmax, Float(Greatest(Range(outcomes[r.name]))))
                /\ ~ FLess(r.maxmax, r.wald)
                /\ FEq(alpha, Float(0)) => FEq(r.hurwicz, r.wald)
                /\ FEq(alpha, Float(1)) => FEq(r.hurwicz, r.maxmax)

\* CalculateCriteria has run with alpha = 0 on a row whose minimum and
\* maximum differ.
C6_Witness ==
    /\ pc = "criteria" /\ CompleteOutcomes
    /\ FEq(alpha, Float(0))
    /\ \E i \in DOMAIN criteriaAlts :
          /\ FLess(criteriaAlts[i].wald, criteriaAlts[i].maxmax)
          /\ FEq(criteriaAlts[i].hurwicz, criteriaAlts[i].wald)

\* r lists every declared alternative exactly once.
ListsEachOnce(r, nameOf(_)) ==
    /\ Len(r) = Len(alternatives)
    /\ {nameOf(r[i]) : i \in DOMAIN r} = AlternativeSet

\* The scores val(r[i]) never decrease / never increase along r.
NonDecreasing(r, val(_)) == \A i, j \in DOMAIN r : i < j => ~ FLess(val(r[j]), val(r[i]))
NonIncreasing(r, val(_)) == \A i, j \in DOMAIN r : i < j => ~ FLess(val(r[i]), val(r[j]))

\* A slice returned by sortAltValues(data, ascending).
RankedFrom(r, data, ascending) ==
    /\ ListsEachOnce(r, LAMBDA x : x.alt)
    /\ \A i \in DOMAIN r : r[i].value = data[r[i].alt]
    /\ IF ascending THEN NonDecreasing(r, LAMBDA x : x.value)
       ELSE NonIncreasing(r, LAMBDA x : x.value)

\* The slice after PrintRankings for the given criterion.
RankedBy(criterion) ==
    /\ ListsEachOnce(criteriaAlts, LAMBDA x : x.name)
    /\ \A i \in DOMAIN criteriaAlts :
          criteriaAlts[i] = CriteriaOf(criteriaAlts[i].name, alpha)
    /\ NonIncreasing(criteriaAlts, LAMBDA x : x[criterion])

\* C7: every ranking lists each of the N declared alternatives exactly once
\* with its own score at positions 1..N; scores never decrease along the
\* Savage ranking and never increase along the Laplace, Wald, MaxiMax and
\* Hurwicz rankings, for each of the three PrintRankings calls in turn.
C7_RankingsSorted ==
    /\ (pc \in {"sortedSev", "laplace", "sortedLaplace"} /\ SavageDone) =>
          RankedFrom(sortedSev, savage, TRUE)
    /\ pc = "sortedLaplace" => RankedFrom(sortedLaplace, laplace, FALSE)
    /\ (pc \in {"wald", "maxmax", "hurwicz"} /\ CompleteOutcomes) => RankedBy(pc)

\* The third PrintRankings call has reordered three alternatives whose
\* Hurwicz order differs from their MaxiMax order and from the declaration.
C7_Witness ==
    /\ pc = "hurwicz" /\ CompleteOutcomes /\ Len(alternatives) = 3
    /\ \E i \in DOMAIN criteriaAlts : criteriaAlts[i].name # alternatives[i]
    /\ \E i, j \in DOMAIN criteriaAlts :
          /\ i < j
          /\ FLess(criteriaAlts[j].hurwicz, criteriaAlts[i].hurwicz)
          /\ FLess(criteriaAlts[i].maxmax, criteriaAlts[j].maxmax)

\* Position of a name in the declaration.
DeclIndex(name) == CHOOSE i \in DOMAIN alternatives : alternatives[i] = name

\* Entries of r with equal scores stand in declaration order.
TiesInDeclOrder(r, nameOf(_), val(_)) ==
    \A i, j \in DOMAIN r :
        (i < j /\ FEq(val(r[i]), val(r[j]))) =>
            DeclIndex(nameOf(r[i])) < DeclIndex(nameOf(r[j]))

\* C8: in every ranking over a complete matrix, alternatives with equal
\* scores appear in the order in which they were declared.
C8_TiesStable ==
    /\ (pc \in {"sortedSev", "laplace", "sortedLaplace"} /\ CompleteOutcomes) =>
          TiesInDeclOrder(sortedSev, LAMBDA x : x.alt, LAMBDA x : x.value)
    /\ (pc = "sortedLaplace" /\ CompleteOutcomes) =>
          TiesInDeclOrder(sortedLaplace, LAMBDA x : x.alt, LAMBDA x : x.value)
    /\ (pc \in {"wald", "maxmax", "hurwicz"} /\ CompleteOutcomes) =>
          TiesInDeclOrder(criteriaAlts, LAMBDA x : x.name, LAMBDA x : x[pc])

\* C9: on an incomplete matrix every core computation still runs to
\* completion and returns a result.
C9_IncompleteNeverAborts == ~ CompleteOutcomes => pc # "panic"

\* C10: after PrintRankings the slice returned by CalculateCriteria is what
\* CalculateCriteria returned: the same elements in declaration order.
C10_PrintRankingsKeepsInput ==
    pc \in {"wald", "maxmax", "hurwicz"} =>
        criteriaAlts = [i \in 1..Len(alternatives) |-> CriteriaOf(alternatives[i], alpha)]

====
